---------------------------- MODULE Spec2Model ----------------------------
(***************************************************************************)
(* A model of ratatui-image: the terminal reply parser, the Picker and the *)
(* capability probe of src/picker.rs, the iTerm2 protocol (fixed and       *)
(* stateful) of src/protocol/iterm2.rs and the cell footprint of           *)
(* src/protocol/mod.rs.                                                    *)
(*                                                                         *)
(* Characters are one-character strings, except the escape character       *)
(* 0x1b, which is written ESC.  A string of the program is a sequence of   *)
(* characters.                                                             *)
(***************************************************************************)
EXTENDS Integers, Sequences, FiniteSets, TLC

VARIABLES
    parser,     \* the Parser: [data, sequence]
    caps,       \* the facts push has returned so far, in order
    input,      \* characters of the current segment not yet pushed
    fed,        \* indices (into Segments) of the segments fed so far
    source,     \* the ImageSource the protocols are built from: [area, hash]
    current,    \* Iterm2State.current, a FixedIterm2: [data, area, is_tmux]
    hash,       \* Iterm2State.hash, the fingerprint recorded at the last encode
    fixed,      \* the FixedIterm2 made by from_source, NoFixed before
    buf,        \* the Buffer handed to a render call, after the call
    bufBefore,  \* the same Buffer as it was before the call
    lastOp,     \* the call on a protocol that has just returned, its arguments
                \* and outcome; NoCall between calls
    lastEncArea, \* the area argument of the last resize_encode that encoded
    picker,     \* the Picker: [font_size, protocol_type, background_color,
                \* is_tmux, kitty_counter]
    made,       \* what the last new_protocol / new_resize_protocol built
    calls,      \* how many protocols the Picker has been asked for
    cycle,      \* the kinds test_cycle_protocol's proto has held, in order
    env,        \* the environment variables from_query_stdio reads
    answer,     \* the segments the terminal answers the query with
    winsize,    \* what tcgetwinsize(stdout) returns
    built,      \* what from_query_stdio returned, NoBuilt before
    callerPc,   \* where the caller of query_with_timeout is
    workerPc,   \* where the thread query_with_timeout spawns is
    result,     \* the worker's result, once it has one
    raw,        \* the input stream is in raw mode
    chan,       \* the channel from the worker to the caller
    received,   \* what query_with_timeout returned to its caller
    pixels,     \* the arguments of round_pixel_size_to_cells:
                \* [img_width, img_height, font_size]
    footprint,  \* the Rect round_pixel_size_to_cells returned, NoRect before
    images,     \* the calls of ImageSource::new so far: arguments and result
    reply       \* the one reply the terminal sends, whole

parserVars == <<parser, caps, input, fed>>

protoVars ==
    <<source, current, hash, fixed, buf, bufBefore, lastOp, lastEncArea>>

pickerVars == <<picker, made, calls, cycle>>

queryVars == <<env, answer, winsize, built>>

probeVars == <<callerPc, workerPc, result, raw, chan, received>>

footVars == <<pixels, footprint>>

sourceVars == <<images>>

replyVars == <<reply>>

vars == <<parser, caps, input, fed, source, current, hash, fixed, buf,
          bufBefore, lastOp, lastEncArea, picker, made, calls, cycle,
          env, answer, winsize, built, callerPc, workerPc, result, raw, chan,
          received, pixels, footprint, images, reply>>

\* What an action of the parser, of a protocol, of the Picker leaves alone.
notParserVars == <<protoVars, pickerVars, queryVars, probeVars, footVars,
                  sourceVars, replyVars>>
notProtoVars == <<parserVars, pickerVars, queryVars, probeVars, footVars,
                  sourceVars, replyVars>>
notPickerVars == <<parserVars, protoVars, queryVars, probeVars, footVars,
                  sourceVars, replyVars>>
notQueryVars == <<parserVars, protoVars, pickerVars, probeVars, footVars,
                  sourceVars, replyVars>>
\* The probe uses the parser's variables and winsize as well as its own.
notProbeVars == <<protoVars, pickerVars, env, answer, built, footVars,
                 sourceVars, replyVars>>
notFootVars == <<parserVars, protoVars, pickerVars, queryVars, probeVars,
                sourceVars, replyVars>>
notSourceVars == <<parserVars, protoVars, pickerVars, queryVars, probeVars,
                  footVars, replyVars>>

(***************************************************************************)
(* Bounds of the model.                                                    *)
(***************************************************************************)
\* How many segments (replies or garbage) the terminal sends in one run.
MaxSegs == 4
\* How many protocols one Picker is asked for.
MaxCalls == 3
\* How many times test_cycle_protocol's proto is advanced.
MaxCycle == 4
\* How many segments the terminal answers one query with.
MaxAnswer == 3
\* The small pixel sizes and the small cell sizes of the model.
MaxPx == 4
MaxCell == 3
\* Width and height of the Buffer, in cells.
BufW == 3
BufH == 2
\* The largest width and height, in cells, of an ImageSource's footprint.
MaxSrcW == 3
MaxSrcH == 2

(***************************************************************************)
(* Strings.                                                                *)
(***************************************************************************)
ESC == "ESC"

Digits == {"0", "1", "2", "3", "4", "5", "6", "7", "8", "9"}

DigitVal(c) ==
    CASE c = "0" -> 0 [] c = "1" -> 1 [] c = "2" -> 2 [] c = "3" -> 3
      [] c = "4" -> 4 [] c = "5" -> 5 [] c = "6" -> 6 [] c = "7" -> 7
      [] c = "8" -> 8 [] c = "9" -> 9

\* s[from..] starts with pat (from is 1-based).
StartsWithAt(s, from, pat) ==
    /\ from + Len(pat) - 1 <= Len(s)
    /\ \A k \in 1..Len(pat) : s[from + k - 1] = pat[k]

\* str::contains
Contains(s, pat) == \E i \in 1..(Len(s) + 1) : StartsWithAt(s, i, pat)

\* str::ends_with
EndsWith(s, pat) ==
    /\ Len(pat) <= Len(s)
    /\ StartsWithAt(s, Len(s) - Len(pat) + 1, pat)

\* str::split(sep).collect(): the fields between the separators, at least one.
RECURSIVE SplitOn(_, _)
SplitOn(s, sep) ==
    IF \A i \in 1..Len(s) : s[i] # sep
    THEN <<s>>
    ELSE LET i == CHOOSE j \in 1..Len(s) :
                      s[j] = sep /\ \A k \in 1..(j - 1) : s[k] # sep
         IN  <<SubSeq(s, 1, i - 1)>> \o SplitOn(SubSeq(s, i + 1, Len(s)), sep)

RECURSIVE DecimalValue(_)
DecimalValue(ds) ==
    IF ds = <<>> THEN 0
    ELSE 10 * DecimalValue(SubSeq(ds, 1, Len(ds) - 1)) + DigitVal(ds[Len(ds)])

U16Max == 65535

\* str::parse::<u16>(): an optional '+', then one or more decimal digits, the
\* value at most u16::MAX.  Err is -1.
ParseU16(s) ==
    LET ds == IF s # <<>> /\ s[1] = "+" THEN Tail(s) ELSE s
    IN  IF ds # <<>> /\ (\A i \in 1..Len(ds) : ds[i] \in Digits)
           /\ DecimalValue(ds) <= U16Max
        THEN DecimalValue(ds)
        ELSE -1

(***************************************************************************)
(* ParsedResponse and Parser (src/picker.rs).                              *)
(***************************************************************************)
NoFact == [kind |-> "None", val |-> <<>>]
KittyFact(b) == [kind |-> "Kitty", val |-> b]
SixelFact(b) == [kind |-> "Sixel", val |-> b]
\* CellSize(None) carries <<>>, CellSize(Some((w, h))) carries <<w, h>>.
CellSizeFact(o) == [kind |-> "CellSize", val |-> o]
StatusFact == [kind |-> "Status", val |-> <<>>]

\* Parser::new
NewParser == [data |-> <<>>, sequence |-> "Unknown"]

\* Parser::restart
Restart(p) == [parser |-> [data |-> <<>>, sequence |-> "Unknown"], out |-> NoFact]

PushUnknownSuffix(p, next) ==
    IF next = ESC THEN Restart(p)
    ELSE LET seq == CASE EndsWith(p.data, <<"[">>) /\ next = "?" -> "Sixel"
                      [] EndsWith(p.data, <<"_", "G", "i", "=", "3", "1">>)
                            /\ next = ";" -> "Kitty"
                      [] EndsWith(p.data, <<"[", "6">>) /\ next = ";" -> "CellSize"
                      [] EndsWith(p.data, <<"[">>) /\ next = "0" -> "Status"
                      [] OTHER -> "Unknown"
         IN  [parser |-> [data |-> Append(p.data, next), sequence |-> seq],
              out |-> NoFact]

\* push, sequence = Unknown
PushUnknown(p, next) ==
    IF next = ESC THEN Restart(p)
    ELSE LET seq == CASE p.data = <<"[">> /\ next = "?" -> "Sixel"
                      [] p.data = <<"_", "G", "i", "=", "3", "1">>
                            /\ next = ";" -> "Kitty"
                      [] p.data = <<"[", "6">> /\ next = ";" -> "CellSize"
                      [] p.data = <<"[">> /\ next = "0" -> "Status"
                      [] OTHER -> "Unknown"
         IN  [parser |-> [data |-> Append(p.data, next), sequence |-> seq],
              out |-> NoFact]

\* push, sequence = Sixel(_), with a 4 anywhere in the buffer taken for sixel
PushSixelAnyFour(p, next) ==
    CASE next = "c" ->
           [parser |-> [data |-> <<>>, sequence |-> "Unknown"],
            out |-> SixelFact(Contains(p.data, <<"4">>))]
      [] next = ESC -> Restart(p)
      [] OTHER -> [parser |-> [p EXCEPT !.data = Append(p.data, next)],
                   out |-> NoFact]

\* push, sequence = Sixel(_)
PushSixel(p, next) ==
    CASE next = "c" ->
           LET is_sixel == \/ Contains(p.data, <<";", "4", ";">>)
                           \/ Contains(p.data, <<"?", "4", ";">>)
                           \/ EndsWith(p.data, <<";", "4">>)
                           \/ EndsWith(p.data, <<"?", "4">>)
           IN  [parser |-> [data |-> <<>>, sequence |-> "Unknown"],
                out |-> SixelFact(is_sixel)]
      [] next = ESC -> Restart(p)
      [] OTHER -> [parser |-> [p EXCEPT !.data = Append(p.data, next)],
                   out |-> NoFact]

\* push, sequence = Kitty(_): no arm for the escape character
PushKitty(p, next) ==
    IF next = "\\"
    THEN LET is_kitty ==
               p.data = <<"_", "G", "i", "=", "3", "1", ";", "O", "K", ESC>>
         IN  [parser |-> [data |-> <<>>, sequence |-> "Unknown"],
              out |-> KittyFact(is_kitty)]
    ELSE [parser |-> [p EXCEPT !.data = Append(p.data, next)], out |-> NoFact]

\* The same, but any fields may follow the third.
CellSizeOfLenient(data) ==
    LET inner == SplitOn(data, ";")
    IN  IF Len(inner) >= 3
        THEN LET h == ParseU16(inner[2])
                 w == ParseU16(inner[3])
             IN  IF h # -1 /\ w # -1 /\ w > 0 /\ h > 0 THEN <<w, h>> ELSE <<>>
        ELSE <<>>

\* if let [_, h, w] = inner[..] { .. h.parse::<u16>(), w.parse::<u16>() .. }
CellSizeOf(data) ==
    LET inner == SplitOn(data, ";")
    IN  IF Len(inner) = 3
        THEN LET h == ParseU16(inner[2])
                 w == ParseU16(inner[3])
             IN  IF h # -1 /\ w # -1 /\ w > 0 /\ h > 0 THEN <<w, h>> ELSE <<>>
        ELSE <<>>

PushCellSizeUnswapped(p, next) ==
    CASE next = "t" ->
           LET cs == CellSizeOf(p.data)
           IN  [parser |-> [data |-> <<>>, sequence |-> "Unknown"],
                out |-> CellSizeFact(IF cs = <<>> THEN <<>> ELSE <<cs[2], cs[1]>>)]
      [] next = ESC -> Restart(p)
      [] OTHER -> [parser |-> [p EXCEPT !.data = Append(p.data, next)],
                   out |-> NoFact]

\* push, sequence = CellSize(_)
PushCellSize(p, next) ==
    CASE next = "t" ->
           [parser |-> [data |-> <<>>, sequence |-> "Unknown"],
            out |-> CellSizeFact(CellSizeOf(p.data))]
      [] next = ESC -> Restart(p)
      [] OTHER -> [parser |-> [p EXCEPT !.data = Append(p.data, next)],
                   out |-> NoFact]

\* push, sequence = Status, with Status returned for the reply ESC[0n alone
PushStatusStrict(p, next) ==
    CASE next = "n" ->
           [parser |-> p,
            out |-> IF p.data = <<"[", "0">> THEN StatusFact ELSE NoFact]
      [] next = ESC -> Restart(p)
      [] OTHER -> [parser |-> [p EXCEPT !.data = Append(p.data, next)],
                   out |-> NoFact]

\* push, sequence = Status: 'n' returns the fact and leaves data and sequence
\* as they are
PushStatus(p, next) ==
    CASE next = "n" -> [parser |-> p, out |-> StatusFact]
      [] next = ESC -> Restart(p)
      [] OTHER -> [parser |-> [p EXCEPT !.data = Append(p.data, next)],
                   out |-> NoFact]

\* Parser::push: the parser after the call and the returned fact (NoFact for
\* None)
Push(p, next) ==
    CASE p.sequence = "Unknown" -> PushUnknown(p, next)
      [] p.sequence = "Sixel" -> PushSixel(p, next)
      [] p.sequence = "Kitty" -> PushKitty(p, next)
      [] p.sequence = "CellSize" -> PushCellSize(p, next)
      [] p.sequence = "Status" -> PushStatus(p, next)

(***************************************************************************)
(* Rect and Buffer (ratatui), as far as render uses them.                  *)
(***************************************************************************)
Min(a, b) == IF a <= b THEN a ELSE b

\* Rect::new
Rect(x, y, w, h) == [x |-> x, y |-> y, width |-> w, height |-> h]

\* Rect::default()
RectDefault == Rect(0, 0, 0, 0)

\* Option<Rect>::None
NoRect == Rect(-1, -1, -1, -1)

\* The cells of the Buffer, (x, y).
Cells == (0..(BufW - 1)) \X (0..(BufH - 1))

\* The cells a Rect covers: top()..bottom() by left()..right().
Covered(r) ==
    { c \in Cells : /\ r.x <= c[1] /\ c[1] < r.x + r.width
                    /\ r.y <= c[2] /\ c[2] < r.y + r.height }

\* A Buffer of text: every cell shows a character and is not skipped.
TextBuffer == [c \in Cells |-> [symbol |-> <<"x">>, skip |-> FALSE]]

\* A Buffer on which an image was drawn before: every cell is skipped.
SkippedBuffer == [c \in Cells |-> [symbol |-> <<"y">>, skip |-> TRUE]]

Buffers == {TextBuffer, SkippedBuffer}

\* No Buffer: the last call was not a render.
NoBuffer == [c \in Cells |-> [symbol |-> <<>>, skip |-> FALSE]]

\* The areas a widget is rendered into: inside the Buffer, possibly empty.
Areas ==
    { Rect(x, y, w, h) : x \in 0..(BufW - 1), y \in 0..(BufH - 1),
                         w \in 0..BufW, h \in 0..BufH }
        \cap { r \in [x : 0..BufW, y : 0..BufH, width : 0..BufW, height : 0..BufH] :
                 r.x + r.width <= BufW /\ r.y + r.height <= BufH }

\* The areas handed to needs_resize, resize_encode and from_source.
SizeAreas == { r \in Areas : r.x = 0 /\ r.y = 0 }

(***************************************************************************)
(* ImageSource and the resize policy.  Resize (Fit, Crop) is defined in    *)
(* the crate root, which is not among the source files: it is modelled     *)
(* from section 4.4 of the specification.                                  *)
(***************************************************************************)
Policies == {"Fit", "Crop"}

\* Option<Rgb<u8>>: no background color, or one.
Backgrounds == {"none", "black"}

\* The footprints and fingerprints of the ImageSources of the model.  The
\* fingerprint 0 is the one a fresh Iterm2State records (u64::default()).
Sources ==
    [area : { Rect(0, 0, w, h) : w \in 1..MaxSrcW, h \in 1..MaxSrcH },
     hash : {0, 1}]

\* The rectangle the policy gives an image of footprint src in area: Fit
\* keeps the aspect ratio within the area, Crop cuts the footprint to the area.
TargetRect(policy, src, area) ==
    IF policy = "Crop"
    THEN Rect(0, 0, Min(src.width, area.width), Min(src.height, area.height))
    ELSE IF src.width <= area.width /\ src.height <= area.height
         THEN Rect(0, 0, src.width, src.height)
         ELSE IF area.width * src.height <= area.height * src.width
              THEN Rect(0, 0, area.width, (src.height * area.width) \div src.width)
              ELSE Rect(0, 0, (src.width * area.height) \div src.height, area.height)

\* Resize::needs_resize: None when the target rectangle is the current one,
\* unless forced.
ResizeNeedsResize(policy, src, cur, area, force) ==
    LET rect == TargetRect(policy, src.area, area)
    IN  IF ~force /\ rect = cur THEN NoRect ELSE rect

\* The bitmap of src resized to rect under policy over background bg.
Image(src, policy, rect, bg) ==
    [hash |-> src.hash, policy |-> policy, width |-> rect.width,
     height |-> rect.height, bg |-> bg]

\* ImageSource.image, the bitmap as loaded.
SourceImage(src) == Image(src, "none", src.area, "none")

\* Resize::resize: None, or the resized bitmap and the rectangle it occupies.
ResizeResize(policy, src, cur, area, bg, force) ==
    LET rect == ResizeNeedsResize(policy, src, cur, area, force)
    IN  IF rect = NoRect
        THEN [some |-> FALSE, img |-> SourceImage(src), rect |-> NoRect]
        ELSE [some |-> TRUE, img |-> Image(src, policy, rect, bg), rect |-> rect]

(***************************************************************************)
(* The iTerm2 protocol (src/protocol/iterm2.rs).                           *)
(***************************************************************************)
\* encode, when it succeeds: the escape sequence is a function of the bitmap
\* and of is_tmux.  The empty string is <<>>.
Encode(img, is_tmux) ==
    <<"File", is_tmux, img.hash, img.policy, img.width, img.height, img.bg>>

\* FixedIterm2::default() with is_tmux set
FixedDefault(is_tmux) == [data |-> <<>>, area |-> RectDefault, is_tmux |-> is_tmux]

\* No FixedIterm2 made yet.
NoFixed == [data |-> <<"none">>, area |-> NoRect, is_tmux |-> FALSE]

\* FixedIterm2::from_source: the protocol, or NoFixed when encode fails.
FromSource(src, policy, bg, is_tmux, area, encodeOk) ==
    LET resized == ResizeResize(policy, src, RectDefault, area, bg, FALSE)
        image == IF resized.some THEN resized.img ELSE SourceImage(src)
        rect == IF resized.some THEN resized.rect ELSE src.area
    IN  IF encodeOk
        THEN [data |-> Encode(image, is_tmux), area |-> rect, is_tmux |-> is_tmux]
        ELSE NoFixed

RenderAreaAlwaysClips(rect, area, overdraw) ==
    Rect(area.x, area.y, Min(rect.width, area.width),
         Min(rect.height, area.height))

RenderAreaNeverClips(rect, area, overdraw) ==
    IF rect.width > area.width \/ rect.height > area.height
    THEN NoRect
    ELSE Rect(area.x, area.y, rect.width, rect.height)

\* render_area
RenderArea(rect, area, overdraw) ==
    IF overdraw
    THEN Rect(area.x, area.y, Min(rect.width, area.width),
              Min(rect.height, area.height))
    ELSE IF rect.width > area.width \/ rect.height > area.height
         THEN NoRect
         ELSE Rect(area.x, area.y, rect.width, rect.height)

\* render: the Buffer after the call.  cell_mut gives no cell outside the
\* Buffer; the symbol is set at the render area's position before the loop
\* over its cells, whose first cell is passed over.
Render(rect, data, area, b, overdraw) ==
    LET ra == RenderArea(rect, area, overdraw)
    IN  IF ra = NoRect THEN b
        ELSE [c \in Cells |->
                IF c = <<ra.x, ra.y>> THEN [b[c] EXCEPT !.symbol = data]
                ELSE IF c \in Covered(ra) THEN [b[c] EXCEPT !.skip = TRUE]
                ELSE b[c]]

NeedsResizeAgainstSource(src, cur, policy, area) ==
    ResizeNeedsResize(policy, src, src.area, area, FALSE)

\* Iterm2State::needs_resize
NeedsResize(src, cur, policy, area) ==
    ResizeNeedsResize(policy, src, cur.area, area, FALSE)

ResizeEncodeStoresArea(src, cur, h, policy, bg, area, encodeOk) ==
    IF area.width = 0 \/ area.height = 0
    THEN [current |-> cur, hash |-> h, outcome |-> "zero_area"]
    ELSE LET force == src.hash # h
             resized == ResizeResize(policy, src, cur.area, area, bg, force)
         IN  IF ~resized.some
             THEN [current |-> cur, hash |-> h, outcome |-> "not_needed"]
             ELSE IF encodeOk
                  THEN [current |-> [data |-> Encode(resized.img, cur.is_tmux),
                                     area |-> Rect(0, 0, area.width, area.height),
                                     is_tmux |-> cur.is_tmux],
                        hash |-> src.hash,
                        outcome |-> "encoded"]
                  ELSE [current |-> cur, hash |-> h, outcome |-> "encode_failed"]

ResizeEncodeClearsOnError(src, cur, h, policy, bg, area, encodeOk) ==
    IF area.width = 0 \/ area.height = 0
    THEN [current |-> cur, hash |-> h, outcome |-> "zero_area"]
    ELSE LET force == src.hash # h
             resized == ResizeResize(policy, src, cur.area, area, bg, force)
         IN  IF ~resized.some
             THEN [current |-> cur, hash |-> h, outcome |-> "not_needed"]
             ELSE IF encodeOk
                  THEN [current |-> [data |-> Encode(resized.img, cur.is_tmux),
                                     area |-> resized.rect,
                                     is_tmux |-> cur.is_tmux],
                        hash |-> src.hash,
                        outcome |-> "encoded"]
                  ELSE [current |-> FixedDefault(cur.is_tmux), hash |-> h,
                        outcome |-> "encode_failed"]

ResizeEncodeNoZeroCheck(src, cur, h, policy, bg, area, encodeOk) ==
    LET force == src.hash # h
        resized == ResizeResize(policy, src, cur.area, area, bg, force)
    IN  IF ~resized.some
        THEN [current |-> cur, hash |-> h, outcome |-> "not_needed"]
        ELSE IF encodeOk
             THEN [current |-> [data |-> Encode(resized.img, cur.is_tmux),
                                area |-> resized.rect,
                                is_tmux |-> cur.is_tmux],
                   hash |-> src.hash,
                   outcome |-> "encoded"]
             ELSE [current |-> cur, hash |-> h, outcome |-> "encode_failed"]

\* The same, but the fingerprint is recorded before encode is tried.
ResizeEncodeRecordsHashFirst(src, cur, h, policy, bg, area, encodeOk) ==
    IF area.width = 0 \/ area.height = 0
    THEN [current |-> cur, hash |-> h, outcome |-> "zero_area"]
    ELSE LET force == src.hash # h
             resized == ResizeResize(policy, src, cur.area, area, bg, force)
         IN  IF ~resized.some
             THEN [current |-> cur, hash |-> h, outcome |-> "not_needed"]
             ELSE IF encodeOk
                  THEN [current |-> [data |-> Encode(resized.img, cur.is_tmux),
                                     area |-> resized.rect,
                                     is_tmux |-> cur.is_tmux],
                        hash |-> src.hash,
                        outcome |-> "encoded"]
                  ELSE [current |-> cur, hash |-> src.hash,
                        outcome |-> "encode_failed"]

\* Iterm2State::resize_encode: current and hash after the call, and what
\* happened ("zero_area", "not_needed", "encoded", "encode_failed").
ResizeEncode(src, cur, h, policy, bg, area, encodeOk) ==
    IF area.width = 0 \/ area.height = 0
    THEN [current |-> cur, hash |-> h, outcome |-> "zero_area"]
    ELSE LET force == src.hash # h
             resized == ResizeResize(policy, src, cur.area, area, bg, force)
         IN  IF ~resized.some
             THEN [current |-> cur, hash |-> h, outcome |-> "not_needed"]
             ELSE IF encodeOk
                  THEN [current |-> [data |-> Encode(resized.img, cur.is_tmux),
                                     area |-> resized.rect,
                                     is_tmux |-> cur.is_tmux],
                        hash |-> src.hash,
                        outcome |-> "encoded"]
                  ELSE [current |-> cur, hash |-> h, outcome |-> "encode_failed"]

\* A call on a protocol, as lastOp records it.
Call(op, policy, bg, area, outcome, ret) ==
    [op |-> op, policy |-> policy, bg |-> bg, area |-> area,
     outcome |-> outcome, ret |-> ret]

NoCall == Call("none", "none", "none", NoRect, "none", NoRect)

\* The protocol variables while only the parser runs.
ProtoIdle ==
    /\ source = [area |-> Rect(0, 0, 1, 1), hash |-> 1]
    /\ current = FixedDefault(FALSE)
    /\ hash = 0
    /\ fixed = NoFixed
    /\ buf = NoBuffer
    /\ bufBefore = NoBuffer
    /\ lastOp = NoCall
    /\ lastEncArea = NoRect

(***************************************************************************)
(* The Picker's variables while no Picker is in use.                       *)
(***************************************************************************)
\* A u32 as its two 16-bit halves: the value is hi * 2^16 + lo.
U32(hi, lo) == [hi |-> hi, lo |-> lo]

\* No image identifier: what a protocol other than Kitty is built with.
NoId == U32(-1, -1)

\* No background color (Option::None) and no font size.
NoColor == "none"
NoFontSize == <<>>

\* What a call for a protocol built: the call, the kind built, the image
\* identifier the Kitty encoder was handed, whether the encoder succeeded
\* and the counter as it was before the call.
Made(op, kind, id, ok, was) ==
    [op |-> op, kind |-> kind, id |-> id, ok |-> ok, was |-> was]

NoMade == Made("none", "none", NoId, TRUE, NoId)

NoPicker ==
    [font_size |-> NoFontSize, protocol_type |-> "none",
     background_color |-> NoColor, is_tmux |-> FALSE,
     kitty_counter |-> U32(0, 0)]

PickerIdle ==
    /\ picker = NoPicker
    /\ made = NoMade
    /\ calls = 0
    /\ cycle = <<>>

\* An environment variable that is not set.
Unset == <<"unset">>

NoEnv ==
    [TERM |-> Unset, TERM_PROGRAM |-> Unset, LC_TERMINAL |-> Unset,
     KITTY_WINDOW_ID |-> Unset, ITERM_SESSION_ID |-> Unset,
     WEZTERM_EXECUTABLE |-> Unset]

\* tcgetwinsize failed.
NoWinsize == [ws_xpixel |-> -1, ws_ypixel |-> -1, ws_col |-> -1, ws_row |-> -1]

\* from_query_stdio has not returned.
NoBuilt == [ok |-> FALSE, picker |-> NoPicker, err |-> "none", fault |-> "none"]

QueryIdle ==
    /\ env = NoEnv
    /\ answer = <<>>
    /\ winsize = NoWinsize
    /\ built = NoBuilt

\* Result<(Option<ProtocolType>, Option<FontSize>)>
OkResult(proto, font_size) ==
    [ok |-> TRUE, proto |-> proto, font_size |-> font_size, err |-> "none"]

ErrResult(err) ==
    [ok |-> FALSE, proto |-> "none", font_size |-> <<>>, err |-> err]

\* No result yet.
NoResult == ErrResult("none")

ProbeIdle ==
    /\ callerPc = "idle"
    /\ workerPc = "idle"
    /\ result = NoResult
    /\ raw = FALSE
    /\ chan = <<>>
    /\ received = NoResult

NoPixels == [img_width |-> 0, img_height |-> 0, font_size |-> NoFontSize]

FootIdle ==
    /\ pixels = NoPixels
    /\ footprint = NoRect

SourceIdle == images = <<>>

ReplyIdle == reply = <<>>

\* Everything outside the parser and the protocols is idle.
RestIdle ==
    PickerIdle /\ QueryIdle /\ ProbeIdle /\ FootIdle /\ SourceIdle /\ ReplyIdle

(***************************************************************************)
(* What the terminal sends: complete replies and garbage, one segment      *)
(* after the other, pushed one character at a time as in the loop of       *)
(* tests::test_parse_all.                                                  *)
(***************************************************************************)
SegKittyOk == <<ESC, "_", "G", "i", "=", "3", "1", ";", "O", "K", ESC, "\\">>
SegSixelYes == <<ESC, "[", "?", "6", "4", ";", "4", "c">>
SegSixelNo == <<ESC, "[", "?", "6", "4", ";", "5", "c">>
SegCellSize == <<ESC, "[", "6", ";", "7", ";", "1", "4", "t">>
SegStatus == <<ESC, "[", "0", "n">>
SegHonkey == <<ESC, "h", "o", "n", "k", "e", "y">>
SegTonkey == <<ESC, "t", "o", "n", "k", "e", "y">>
SegCsi42 == <<ESC, "[", "4", "2">>
SegSt == <<ESC, "\\">>
SegInnerPrefix == <<ESC, "x", "[", "?", "4", "c">>
SegKittyCut == <<ESC, "_", "G", "i", "=", "3", "1", ";">>

Segments ==
    <<SegKittyOk, SegSixelYes, SegSixelNo, SegCellSize, SegStatus,
      SegHonkey, SegTonkey, SegCsi42, SegSt, SegInnerPrefix, SegKittyCut>>

SegIds == 1..Len(Segments)

RECURSIVE Stream(_)
\* The characters of the segments f, concatenated.
Stream(f) == IF f = <<>> THEN <<>> ELSE Segments[Head(f)] \o Stream(Tail(f))

RECURSIVE Run(_, _, _)
\* The facts push returns for the characters s, starting from parser p with
\* the facts acc already returned (the loop of tests::test_parse_all).
Run(p, s, acc) ==
    IF s = <<>> THEN acc
    ELSE LET r == Push(p, Head(s))
         IN  Run(r.parser, Tail(s),
                 IF r.out = NoFact THEN acc ELSE Append(acc, r.out))

ParserIdle ==
    /\ parser = NewParser
    /\ caps = <<>>
    /\ input = <<>>
    /\ fed = <<>>

ParserInit == ParserIdle /\ ProtoIdle /\ RestIdle

\* The terminal sends the next segment.
Feed ==
    /\ input = <<>>
    /\ Len(fed) < MaxSegs
    /\ \E s \in SegIds :
         /\ input' = Segments[s]
         /\ fed' = Append(fed, s)
    /\ UNCHANGED <<parser, caps>>
    /\ UNCHANGED notParserVars

\* for ch in str.chars() { if let Some(cap) = parser.push(ch) { caps.push(cap) } }
PushChar ==
    /\ input # <<>>
    /\ LET r == Push(parser, Head(input))
       IN  /\ parser' = r.parser
           /\ caps' = IF r.out = NoFact THEN caps ELSE Append(caps, r.out)
    /\ input' = Tail(input)
    /\ UNCHANGED fed
    /\ UNCHANGED notParserVars

ParserNext == Feed \/ PushChar

ParserSpec == ParserInit /\ [][ParserNext]_vars

(***************************************************************************)
(* The stateful protocol: an Iterm2State made by Iterm2State::new and the  *)
(* calls of its owner, in any order and with any arguments.                *)
(***************************************************************************)
\* Iterm2State::new, but the source is encoded when the protocol is made.
StatefulInitEncodes ==
    /\ ParserIdle
    /\ RestIdle
    /\ source \in Sources
    /\ \E is_tmux \in BOOLEAN :
         current = [data |-> Encode(SourceImage(source), is_tmux),
                    area |-> source.area, is_tmux |-> is_tmux]
    /\ hash = source.hash
    /\ fixed = NoFixed
    /\ buf = NoBuffer
    /\ bufBefore = NoBuffer
    /\ lastOp = NoCall
    /\ lastEncArea = NoRect

\* Iterm2State::new(source, font_size, is_tmux), as
\* Picker::new_resize_protocol calls it.
StatefulInit ==
    /\ ParserIdle
    /\ RestIdle
    /\ source \in Sources
    /\ \E is_tmux \in BOOLEAN : current = FixedDefault(is_tmux)
    /\ hash = 0
    /\ fixed = NoFixed
    /\ buf = NoBuffer
    /\ bufBefore = NoBuffer
    /\ lastOp = NoCall
    /\ lastEncArea = NoRect

\* needs_resize(resize, area)
DoNeedsResize ==
    /\ lastOp = NoCall
    /\ \E policy \in Policies, area \in SizeAreas :
         lastOp' = Call("needs_resize", policy, "none", area, "returned",
                        NeedsResize(source, current, policy, area))
    /\ UNCHANGED <<source, current, hash, fixed, lastEncArea, buf, bufBefore>>
    /\ UNCHANGED notProtoVars

\* resize_encode(resize, background_color, area); encode succeeds or fails
DoResizeEncode ==
    /\ lastOp = NoCall
    /\ \E policy \in Policies, bg \in Backgrounds, area \in SizeAreas,
          encodeOk \in BOOLEAN :
         LET r == ResizeEncode(source, current, hash, policy, bg, area, encodeOk)
         IN  /\ current' = r.current
             /\ hash' = r.hash
             /\ lastOp' = Call("resize_encode", policy, bg, area, r.outcome, NoRect)
             /\ lastEncArea' = IF r.outcome = "encoded" THEN area ELSE lastEncArea
    /\ UNCHANGED <<source, fixed, buf, bufBefore>>
    /\ UNCHANGED notProtoVars

\* Iterm2State::render(area, buf)
DoRender ==
    /\ lastOp = NoCall
    /\ \E area \in Areas, b \in Buffers :
         /\ bufBefore' = b
         /\ buf' = Render(current.area, current.data, area, b, TRUE)
         /\ lastOp' = Call("render", "none", "none", area, "returned",
                           RenderArea(current.area, area, TRUE))
    /\ UNCHANGED <<source, current, hash, fixed, lastEncArea>>
    /\ UNCHANGED notProtoVars

\* The call has returned and its caller is done with what it returned: the
\* protocol is ready for the next call.
Returned ==
    /\ lastOp # NoCall
    /\ lastOp' = NoCall
    /\ buf' = NoBuffer
    /\ bufBefore' = NoBuffer
    /\ UNCHANGED <<source, current, hash, fixed, lastEncArea>>
    /\ UNCHANGED notProtoVars

\* StatefulProtocol::resize_encode_render(resize, background_color, area, buf):
\* what needs_resize returns, and not area, is handed to resize_encode.
DoResizeEncodeRender ==
    /\ lastOp = NoCall
    /\ \E policy \in Policies, bg \in Backgrounds, area \in SizeAreas,
          b \in Buffers, encodeOk \in BOOLEAN :
         LET rect == NeedsResize(source, current, policy, area)
             r == IF rect = NoRect
                  THEN [current |-> current, hash |-> hash,
                        outcome |-> "not_needed"]
                  ELSE ResizeEncode(source, current, hash, policy, bg, rect,
                                    encodeOk)
         IN  /\ current' = r.current
             /\ hash' = r.hash
             /\ lastEncArea' = IF r.outcome = "encoded" THEN rect
                                ELSE lastEncArea
             /\ bufBefore' = b
             /\ buf' = Render(r.current.area, r.current.data, area, b, TRUE)
             /\ lastOp' = Call("resize_encode_render", policy, bg, area,
                               r.outcome,
                               RenderArea(r.current.area, area, TRUE))
    /\ UNCHANGED <<source, fixed>>
    /\ UNCHANGED notProtoVars

StatefulNext ==
    \/ DoNeedsResize
    \/ DoResizeEncode
    \/ DoRender
    \/ DoResizeEncodeRender
    \/ Returned

StatefulSpec == StatefulInit /\ [][StatefulNext]_vars

(***************************************************************************)
(* The fixed protocol: FixedIterm2::from_source and its render.            *)
(***************************************************************************)
FixedInit ==
    /\ ParserIdle
    /\ RestIdle
    /\ source \in Sources
    /\ \E is_tmux \in BOOLEAN : current = FixedDefault(is_tmux)
    /\ hash = 0
    /\ fixed = NoFixed
    /\ buf = NoBuffer
    /\ bufBefore = NoBuffer
    /\ lastOp = NoCall
    /\ lastEncArea = NoRect

\* FixedIterm2::from_source(source, font_size, resize, background_color,
\* is_tmux, area); encode succeeds or fails
DoFromSource ==
    /\ lastOp = NoCall
    /\ \E policy \in Policies, bg \in Backgrounds, area \in SizeAreas,
          encodeOk \in BOOLEAN :
         LET f == FromSource(source, policy, bg, current.is_tmux, area, encodeOk)
         IN  /\ fixed' = IF f = NoFixed THEN fixed ELSE f
             /\ lastOp' = Call("from_source", policy, bg, area,
                               IF f = NoFixed THEN "encode_failed" ELSE "encoded",
                               NoRect)
    /\ UNCHANGED <<source, current, hash, lastEncArea, buf, bufBefore>>
    /\ UNCHANGED notProtoVars

\* <FixedIterm2 as Protocol>::render(area, buf)
DoFixedRender ==
    /\ lastOp = NoCall
    /\ fixed # NoFixed
    /\ \E area \in Areas, b \in Buffers :
         /\ bufBefore' = b
         /\ buf' = Render(fixed.area, fixed.data, area, b, FALSE)
         /\ lastOp' = Call("fixed_render", "none", "none", area, "returned",
                           RenderArea(fixed.area, area, FALSE))
    /\ UNCHANGED <<source, current, hash, fixed, lastEncArea>>
    /\ UNCHANGED notProtoVars

FixedNext == DoFromSource \/ DoFixedRender \/ Returned

FixedSpec == FixedInit /\ [][FixedNext]_vars

(***************************************************************************)
(* The Picker: its counter of Kitty image identifiers, its setters and the *)
(* two calls that build a protocol; and ProtocolType::next.                *)
(***************************************************************************)
U32Max == U32(U16Max, U16Max)

\* kitty_counter.checked_add(1).unwrap_or(1), wrapping to 0 instead of 1
KittyCounterWrapsToZero(c) ==
    IF c.lo < U16Max THEN U32(c.hi, c.lo + 1)
    ELSE IF c.hi < U16Max THEN U32(c.hi + 1, 0)
    ELSE U32(0, 0)

\* kitty_counter.checked_add(1).unwrap_or(1)
KittyCounterNext(c) ==
    IF c.lo < U16Max THEN U32(c.hi, c.lo + 1)
    ELSE IF c.hi < U16Max THEN U32(c.hi + 1, 0)
    ELSE U32(0, 1)

ProtocolTypes == {"Halfblocks", "Sixel", "Kitty", "Iterm2"}

\* ProtocolType::next with Kitty and Iterm2 both going to Halfblocks
ProtocolTypeNextSkips(k) ==
    CASE k = "Halfblocks" -> "Sixel"
      [] k = "Sixel" -> "Kitty"
      [] k = "Kitty" -> "Halfblocks"
      [] k = "Iterm2" -> "Halfblocks"

\* ProtocolType::next
ProtocolTypeNext(k) ==
    CASE k = "Halfblocks" -> "Sixel"
      [] k = "Sixel" -> "Kitty"
      [] k = "Kitty" -> "Iterm2"
      [] k = "Iterm2" -> "Halfblocks"

\* Picker::new_protocol advancing the counter for every kind
NewProtocolCountsAll(p, ok) ==
    LET c == KittyCounterNext(p.kitty_counter)
    IN  [picker |-> [p EXCEPT !.kitty_counter = c],
         made |-> Made("new_protocol", p.protocol_type,
                       IF p.protocol_type = "Kitty" THEN c ELSE NoId,
                       ok, p.kitty_counter)]

\* Picker::new_protocol(image, size, resize); ok: from_source succeeds
NewProtocol(p, ok) ==
    IF p.protocol_type = "Kitty"
    THEN LET c == KittyCounterNext(p.kitty_counter)
         IN  [picker |-> [p EXCEPT !.kitty_counter = c],
              made |-> Made("new_protocol", "Kitty", c, ok, p.kitty_counter)]
    ELSE [picker |-> p,
          made |-> Made("new_protocol", p.protocol_type, NoId, ok,
                        p.kitty_counter)]

\* Picker::new_resize_protocol(image)
NewResizeProtocol(p) ==
    IF p.protocol_type = "Kitty"
    THEN LET c == KittyCounterNext(p.kitty_counter)
         IN  [picker |-> [p EXCEPT !.kitty_counter = c],
              made |-> Made("new_resize_protocol", "Kitty", c, TRUE,
                            p.kitty_counter)]
    ELSE [picker |-> p,
          made |-> Made("new_resize_protocol", p.protocol_type, NoId, TRUE,
                        p.kitty_counter)]

\* The values rand::random() gives the counter that matter: the ends of the
\* range, their neighbours and a carry between the halves.
CounterStarts ==
    {U32(0, 0), U32(0, 1), U32(0, U16Max), U32(U16Max, U16Max - 1), U32Max}

FontSizes == {<<7, 14>>, <<10, 20>>}

Colors == {NoColor, "black"}

\* A Picker as from_query_stdio or from_fontsize returns it, and the first
\* value of proto in test_cycle_protocol.
PickerInit ==
    /\ ParserIdle
    /\ ProtoIdle
    /\ QueryIdle
    /\ ProbeIdle
    /\ FootIdle
    /\ SourceIdle
    /\ ReplyIdle
    /\ picker \in [font_size : FontSizes, protocol_type : ProtocolTypes,
                    background_color : {NoColor}, is_tmux : BOOLEAN,
                    kitty_counter : CounterStarts]
    /\ made = NoMade
    /\ calls = 0
    /\ \E k \in ProtocolTypes : cycle = <<k>>

DoSetProtocolType ==
    /\ \E k \in ProtocolTypes : picker' = [picker EXCEPT !.protocol_type = k]
    /\ UNCHANGED <<made, calls, cycle>>
    /\ UNCHANGED notPickerVars

DoSetBackgroundColor ==
    /\ \E c \in Colors : picker' = [picker EXCEPT !.background_color = c]
    /\ UNCHANGED <<made, calls, cycle>>
    /\ UNCHANGED notPickerVars

DoNewProtocol ==
    /\ calls < MaxCalls
    /\ \E ok \in BOOLEAN :
         LET r == NewProtocol(picker, ok)
         IN  /\ picker' = r.picker
             /\ made' = r.made
    /\ calls' = calls + 1
    /\ UNCHANGED cycle
    /\ UNCHANGED notPickerVars

DoNewResizeProtocol ==
    /\ calls < MaxCalls
    /\ LET r == NewResizeProtocol(picker)
       IN  /\ picker' = r.picker
           /\ made' = r.made
    /\ calls' = calls + 1
    /\ UNCHANGED cycle
    /\ UNCHANGED notPickerVars

\* proto = proto.next();
DoProtocolTypeNext ==
    /\ Len(cycle) <= MaxCycle
    /\ cycle' = Append(cycle, ProtocolTypeNext(cycle[Len(cycle)]))
    /\ UNCHANGED <<picker, made, calls>>
    /\ UNCHANGED notPickerVars

PickerNext ==
    \/ DoSetProtocolType
    \/ DoSetBackgroundColor
    \/ DoNewProtocol
    \/ DoNewResizeProtocol
    \/ DoProtocolTypeNext

PickerSpec == PickerInit /\ [][PickerNext]_vars

(***************************************************************************)
(* The probing constructor, from_query_stdio: what it reads from the       *)
(* environment, what the probe returns for the terminal's answer, and how  *)
(* the protocol type and the font size are resolved.                       *)
(***************************************************************************)
StrTmux == <<"t", "m", "u", "x">>
StrITerm == <<"i", "T", "e", "r", "m">>
StrWezTerm == <<"W", "e", "z", "T", "e", "r", "m">>
StrMintty == <<"m", "i", "n", "t", "t", "y">>
StrVscode == <<"v", "s", "c", "o", "d", "e">>
StrTabby == <<"T", "a", "b", "b", "y">>
StrHyper == <<"H", "y", "p", "e", "r">>

\* env::var(hint).is_ok_and(|s| !s.is_empty())
IsSetAndNotEmpty(v) == v # Unset /\ v # <<>>

\* detect_tmux_and_outer_protocol_from_env: (is_tmux, tmux_proto)
DetectTmuxAndOuterProtocolFromEnv(e) ==
    IF /\ ~(e.TERM # Unset /\ StartsWithAt(e.TERM, 1, StrTmux))
       /\ ~(e.TERM_PROGRAM # Unset /\ e.TERM_PROGRAM = StrTmux)
    THEN [is_tmux |-> FALSE, proto |-> "none"]
    ELSE IF IsSetAndNotEmpty(e.KITTY_WINDOW_ID)
    THEN [is_tmux |-> TRUE, proto |-> "Kitty"]
    ELSE IF IsSetAndNotEmpty(e.ITERM_SESSION_ID)
    THEN [is_tmux |-> TRUE, proto |-> "Iterm2"]
    ELSE IF IsSetAndNotEmpty(e.WEZTERM_EXECUTABLE)
    THEN [is_tmux |-> TRUE, proto |-> "Iterm2"]
    ELSE [is_tmux |-> TRUE, proto |-> "none"]

\* iterm2_from_env
Iterm2FromEnv(e) ==
    IF /\ e.TERM_PROGRAM # Unset
       /\ \/ Contains(e.TERM_PROGRAM, StrITerm)
          \/ Contains(e.TERM_PROGRAM, StrWezTerm)
          \/ Contains(e.TERM_PROGRAM, StrMintty)
          \/ Contains(e.TERM_PROGRAM, StrVscode)
          \/ Contains(e.TERM_PROGRAM, StrTabby)
          \/ Contains(e.TERM_PROGRAM, StrHyper)
    THEN "Iterm2"
    ELSE IF e.LC_TERMINAL # Unset /\ Contains(e.LC_TERMINAL, StrITerm)
    THEN "Iterm2"
    ELSE "none"

\* font_size_fallback, given what tcgetwinsize returned
FontSizeFallback(ws) ==
    IF ws = NoWinsize THEN <<>>
    ELSE IF ws.ws_xpixel = 0 \/ ws.ws_ypixel = 0 \/ ws.ws_col = 0 \/ ws.ws_row = 0
    THEN <<>>
    ELSE <<ws.ws_xpixel \div ws.ws_col, ws.ws_ypixel \div ws.ws_row>>

RECURSIVE WholeChunk(_, _, _)
\* The loop over the characters read with break in place of break 'out: a
\* Status ends the reading only after the last character read is pushed.
WholeChunk(p, s, acc) ==
    IF s = <<>> THEN [done |-> FALSE, capabilities |-> acc, parser |-> p]
    ELSE LET r == Push(p, Head(s))
             rest == WholeChunk(
                         r.parser, Tail(s),
                         IF r.out \in {NoFact, StatusFact} THEN acc
                         ELSE Append(acc, r.out))
         IN  [rest EXCEPT !.done = rest.done \/ r.out = StatusFact]

RECURSIVE ReadLoop(_, _, _)
\* The 'out loop of query_stdio_capabilities over the characters s the
\* terminal sends: the capabilities collected, and whether the loop was left
\* (a Status was parsed) or is still reading when s is used up.
ReadLoop(p, s, acc) ==
    IF s = <<>> THEN [done |-> FALSE, capabilities |-> acc, parser |-> p]
    ELSE LET r == Push(p, Head(s))
         IN  IF r.out = StatusFact
             THEN [done |-> TRUE, capabilities |-> acc, parser |-> r.parser]
             ELSE ReadLoop(r.parser, Tail(s),
                           IF r.out = NoFact THEN acc ELSE Append(acc, r.out))

\* Vec::contains
Has(capabilities, cap) ==
    \E i \in 1..Len(capabilities) : capabilities[i] = cap

\* proto of query_stdio_capabilities
ProtoOf(capabilities) ==
    IF Has(capabilities, KittyFact(TRUE)) THEN "Kitty"
    ELSE IF Has(capabilities, SixelFact(TRUE)) THEN "Sixel"
    ELSE "none"

RECURSIVE FontSizeOf(_, _)
\* font_size of query_stdio_capabilities after the for loop, from font_size f
FontSizeOf(capabilities, f) ==
    IF capabilities = <<>> THEN f
    ELSE LET cap == Head(capabilities)
         IN  FontSizeOf(Tail(capabilities),
                        IF cap.kind = "CellSize" /\ cap.val # <<>>
                        THEN cap.val ELSE f)

\* query_stdio_capabilities has not returned: it is blocked in read.
Blocked == ErrResult("blocked")

\* What goes wrong during one probe: nothing, the deadline passes before the
\* worker sends, or one of the calls on the terminal fails.
Faults == {"none", "timeout", "raw", "write", "read", "restore"}

\* query_stdio_capabilities after the loop
CapabilitiesResult(capabilities, ws) ==
    IF capabilities = <<>>
    THEN ErrResult("no reply to graphics support query")
    ELSE LET f == FontSizeOf(capabilities, <<>>)
         IN  OkResult(ProtoOf(capabilities),
                      IF f # <<>> THEN f ELSE FontSizeFallback(ws))

\* query_stdio_capabilities; the terminal sends s, tcgetwinsize returns ws
QueryStdioCapabilities(s, ws, fault) ==
    IF fault = "write" \/ fault = "read" THEN ErrResult(fault)
    ELSE LET l == ReadLoop(NewParser, s, <<>>)
         IN  IF ~l.done THEN Blocked
             ELSE CapabilitiesResult(l.capabilities, ws)

\* query_with_timeout, as its caller sees it
QueryWithTimeout(s, ws, fault) ==
    IF fault = "timeout" THEN ErrResult("timeout")
    ELSE IF fault = "raw" THEN ErrResult("raw")
    ELSE LET r == QueryStdioCapabilities(s, ws, fault)
         IN  IF r = Blocked THEN ErrResult("timeout")
             ELSE IF fault = "restore" THEN ErrResult("restore")
             ELSE r

\* Result<Picker>, with what went wrong during the probe
Built(ok, p, err, fault) == [ok |-> ok, picker |-> p, err |-> err, fault |-> fault]

\* from_query_stdio asking the environment's iTerm2 hint before the guess
\* made inside tmux
FromQueryStdioHintFirst(e, s, ws, fault, counter) ==
    LET d == DetectTmuxAndOuterProtocolFromEnv(e)
        q == QueryWithTimeout(s, ws, fault)
        iterm2_proto == Iterm2FromEnv(e)
        protocol_type ==
            IF iterm2_proto # "none" THEN iterm2_proto
            ELSE IF d.proto # "none" THEN d.proto
            ELSE IF q.proto # "none" THEN q.proto
            ELSE "Halfblocks"
    IN  IF ~q.ok THEN Built(FALSE, NoPicker, q.err, fault)
        ELSE IF q.font_size # <<>>
        THEN Built(TRUE,
                   [font_size |-> q.font_size, protocol_type |-> protocol_type,
                    background_color |-> NoColor, is_tmux |-> d.is_tmux,
                    kitty_counter |-> counter],
                   "none", fault)
        ELSE Built(FALSE, NoPicker, "could not query font size", fault)

\* from_query_stdio; counter is what rand::random() returns
FromQueryStdio(e, s, ws, fault, counter) ==
    LET d == DetectTmuxAndOuterProtocolFromEnv(e)
        q == QueryWithTimeout(s, ws, fault)
        iterm2_proto == Iterm2FromEnv(e)
        protocol_type ==
            IF d.proto # "none" THEN d.proto
            ELSE IF iterm2_proto # "none" THEN iterm2_proto
            ELSE IF q.proto # "none" THEN q.proto
            ELSE "Halfblocks"
    IN  IF ~q.ok THEN Built(FALSE, NoPicker, q.err, fault)
        ELSE IF q.font_size # <<>>
        THEN Built(TRUE,
                   [font_size |-> q.font_size, protocol_type |-> protocol_type,
                    background_color |-> NoColor, is_tmux |-> d.is_tmux,
                    kitty_counter |-> counter],
                   "none", fault)
        ELSE Built(FALSE, NoPicker, "could not query font size", fault)

Env(term, term_program, lc_terminal, kitty, iterm, wezterm) ==
    [TERM |-> term, TERM_PROGRAM |-> term_program, LC_TERMINAL |-> lc_terminal,
     KITTY_WINDOW_ID |-> kitty, ITERM_SESSION_ID |-> iterm,
     WEZTERM_EXECUTABLE |-> wezterm]

StrXterm == <<"x", "t", "e", "r", "m">>
StrTmux256 == <<"t", "m", "u", "x", "-", "2", "5", "6">>
StrITerm2 == <<"i", "T", "e", "r", "m", "2">>

\* The environments of the model.  Outside tmux: a plain xterm, the vscode
\* terminal, iTerm2, kitty.  Inside tmux: no hint, started from kitty, from
\* iTerm2, from WezTerm (found by TERM_PROGRAM alone), with KITTY_WINDOW_ID
\* inherited while LC_TERMINAL names iTerm2, and with an empty
\* WEZTERM_EXECUTABLE while LC_TERMINAL names iTerm2.
Envs ==
    {Env(StrXterm, Unset, Unset, Unset, Unset, Unset),
     Env(StrXterm, StrVscode, Unset, Unset, Unset, Unset),
     Env(StrXterm, Unset, StrITerm2, Unset, <<"w", "0">>, Unset),
     Env(StrXterm, Unset, Unset, <<"1">>, Unset, Unset),
     Env(StrTmux256, StrTmux, Unset, Unset, Unset, Unset),
     Env(StrTmux256, StrTmux, Unset, <<"1">>, Unset, Unset),
     Env(StrTmux256, StrTmux, StrITerm2, Unset, <<"w", "0">>, Unset),
     Env(StrXterm, StrTmux, Unset, Unset, Unset, <<"w", "e", "z">>),
     Env(StrTmux256, Unset, StrITerm2, <<"1">>, Unset, Unset),
     Env(StrTmux256, Unset, StrITerm2, Unset, Unset, <<>>)}

\* The segments a terminal answers the query with: the replies of
\* test_parse_all and one piece of garbage.
AnswerSegs == {1, 2, 3, 4, 5, 6}

Answers == UNION {[1..n -> AnswerSegs] : n \in 0..MaxAnswer}

\* tcgetwinsize fails, reports no pixel sizes, or reports 80 x 24 cells of
\* 8 x 16 pixels.
Winsizes ==
    {NoWinsize,
     [ws_xpixel |-> 0, ws_ypixel |-> 0, ws_col |-> 80, ws_row |-> 24],
     [ws_xpixel |-> 640, ws_ypixel |-> 384, ws_col |-> 80, ws_row |-> 24]}

QueryInit ==
    /\ ParserIdle
    /\ ProtoIdle
    /\ PickerIdle
    /\ ProbeIdle
    /\ FootIdle
    /\ SourceIdle
    /\ ReplyIdle
    /\ env \in Envs
    /\ answer \in Answers
    /\ winsize \in Winsizes
    /\ built = NoBuilt

\* Picker::from_query_stdio()
DoFromQueryStdio ==
    /\ built = NoBuilt
    /\ \E fault \in Faults, counter \in CounterStarts :
         built' = FromQueryStdio(env, Stream(answer), winsize, fault, counter)
    /\ UNCHANGED <<env, answer, winsize>>
    /\ UNCHANGED notQueryVars

QueryNext == DoFromQueryStdio

QuerySpec == QueryInit /\ [][QueryNext]_vars

(***************************************************************************)
(* The probe, query_with_timeout: the caller, the worker thread it spawns  *)
(* and the terminal.  The worker's Parser and capabilities are parser and  *)
(* caps, the segments the terminal has sent are fed, and input holds the   *)
(* characters sent and not yet read.                                       *)
(***************************************************************************)
\* let mut charbuf: [u8; 50]
ChunkLen == 50

ProbeInit ==
    /\ ParserIdle
    /\ ProtoIdle
    /\ PickerIdle
    /\ FootIdle
    /\ SourceIdle
    /\ ReplyIdle
    /\ env = NoEnv
    /\ answer = <<>>
    /\ built = NoBuilt
    /\ winsize \in Winsizes
    /\ callerPc = "start"
    /\ workerPc = "idle"
    /\ result = NoResult
    /\ raw = FALSE
    /\ chan = <<>>
    /\ received = NoResult

\* thread::spawn(..)
Spawn ==
    /\ callerPc = "start"
    /\ callerPc' = "waiting"
    /\ workerPc' = "spawned"
    /\ UNCHANGED <<result, raw, chan, received, winsize>>
    /\ UNCHANGED parserVars
    /\ UNCHANGED notProbeVars

\* enable_raw_mode(): tcgetattr and tcsetattr succeed, or one of them fails
\* and and_then skips the query
EnableRawMode ==
    /\ workerPc = "spawned"
    /\ \E ok \in BOOLEAN :
         IF ok
         THEN raw' = TRUE /\ workerPc' = "write" /\ UNCHANGED result
         ELSE result' = ErrResult("raw") /\ workerPc' = "send" /\ UNCHANGED raw
    /\ UNCHANGED <<callerPc, chan, received, winsize>>
    /\ UNCHANGED parserVars
    /\ UNCHANGED notProbeVars

\* io::stdout().write_all(query.as_bytes())?; io::stdout().flush()?;
WriteQuery ==
    /\ workerPc = "write"
    /\ \E ok \in BOOLEAN :
         IF ok
         THEN workerPc' = "read" /\ UNCHANGED result
         ELSE result' = ErrResult("write") /\ workerPc' = "restore"
    /\ UNCHANGED <<callerPc, raw, chan, received, winsize>>
    /\ UNCHANGED parserVars
    /\ UNCHANGED notProbeVars

\* What the terminal may send while the probe runs: the segments of an
\* answer, and a Kitty reply cut short.
ProbeSegs == AnswerSegs \cup {11}

\* The terminal, once the query is written, sends one more segment of its
\* answer; it may as well never send anything.
TerminalSends ==
    /\ workerPc \in {"read", "restore", "send"}
    /\ Len(fed) < MaxAnswer
    /\ \E s \in ProbeSegs :
         /\ input' = input \o Segments[s]
         /\ fed' = Append(fed, s)
    /\ UNCHANGED <<parser, caps>>
    /\ UNCHANGED <<probeVars, winsize>>
    /\ UNCHANGED notProbeVars

\* One turn of the loop when read returns Ok(read), with break in place of
\* break 'out.
ReadChunkBreaksInnerLoop ==
    /\ workerPc = "read"
    /\ input # <<>>
    /\ LET read == Min(ChunkLen, Len(input))
           l == WholeChunk(parser, SubSeq(input, 1, read), caps)
       IN  /\ parser' = l.parser
           /\ caps' = l.capabilities
           /\ input' = SubSeq(input, read + 1, Len(input))
           /\ IF l.done
              THEN /\ result' = CapabilitiesResult(l.capabilities, winsize)
                   /\ workerPc' = "restore"
              ELSE UNCHANGED <<result, workerPc>>
    /\ UNCHANGED <<fed, callerPc, raw, chan, received, winsize>>
    /\ UNCHANGED notProbeVars

\* One turn of the 'out loop when read returns Ok(read): the bytes read are
\* pushed until a Status comes out; after the loop the result is made.
ReadChunk ==
    /\ workerPc = "read"
    /\ input # <<>>
    /\ LET read == Min(ChunkLen, Len(input))
           l == ReadLoop(parser, SubSeq(input, 1, read), caps)
       IN  /\ parser' = l.parser
           /\ caps' = l.capabilities
           /\ input' = SubSeq(input, read + 1, Len(input))
           /\ IF l.done
              THEN /\ result' = CapabilitiesResult(l.capabilities, winsize)
                   /\ workerPc' = "restore"
              ELSE UNCHANGED <<result, workerPc>>
    /\ UNCHANGED <<fed, callerPc, raw, chan, received, winsize>>
    /\ UNCHANGED notProbeVars

\* One turn of the 'out loop when read returns Err(err)
ReadFails ==
    /\ workerPc = "read"
    /\ result' = ErrResult("read")
    /\ workerPc' = "restore"
    /\ UNCHANGED <<callerPc, raw, chan, received, winsize>>
    /\ UNCHANGED parserVars
    /\ UNCHANGED notProbeVars

\* The closure without disable_raw_mode(): the result is sent in raw mode
DisableRawModeLeftOut ==
    /\ workerPc = "restore"
    /\ workerPc' = "send"
    /\ UNCHANGED <<callerPc, result, raw, chan, received, winsize>>
    /\ UNCHANGED parserVars
    /\ UNCHANGED notProbeVars

\* disable_raw_mode()?; result  -- run after a successful query only
DisableRawModeOnSuccessOnly ==
    /\ workerPc = "restore"
    /\ \E ok \in BOOLEAN :
         IF ~result.ok THEN UNCHANGED <<raw, result>>
         ELSE IF ok THEN raw' = FALSE /\ UNCHANGED result
         ELSE result' = ErrResult("restore") /\ UNCHANGED raw
    /\ workerPc' = "send"
    /\ UNCHANGED <<callerPc, chan, received, winsize>>
    /\ UNCHANGED parserVars
    /\ UNCHANGED notProbeVars

\* disable_raw_mode()?; result  -- tcsetattr succeeds, or fails and its
\* error takes the place of the query's result
DisableRawMode ==
    /\ workerPc = "restore"
    /\ \E ok \in BOOLEAN :
         IF ok
         THEN raw' = FALSE /\ UNCHANGED result
         ELSE result' = ErrResult("restore") /\ UNCHANGED raw
    /\ workerPc' = "send"
    /\ UNCHANGED <<callerPc, chan, received, winsize>>
    /\ UNCHANGED parserVars
    /\ UNCHANGED notProbeVars

\* let _ = tx.send(..) handing the result to the caller even after it returned
SendResultToReturnedCaller ==
    /\ workerPc = "send"
    /\ IF callerPc = "waiting"
       THEN chan' = <<result>> /\ UNCHANGED received
       ELSE received' = result /\ UNCHANGED chan
    /\ workerPc' = "done"
    /\ UNCHANGED <<callerPc, result, raw, winsize>>
    /\ UNCHANGED parserVars
    /\ UNCHANGED notProbeVars

\* let _ = tx.send(..): the result goes into the channel, or is dropped when
\* the receiver is gone; the error of send is ignored
SendResult ==
    /\ workerPc = "send"
    /\ chan' = IF callerPc = "waiting" THEN <<result>> ELSE chan
    /\ workerPc' = "done"
    /\ UNCHANGED <<callerPc, result, raw, received, winsize>>
    /\ UNCHANGED parserVars
    /\ UNCHANGED notProbeVars

\* rx.recv_timeout(timeout) returns Ok(result)
RecvResult ==
    /\ callerPc = "waiting"
    /\ chan # <<>>
    /\ received' = chan[1]
    /\ chan' = <<>>
    /\ callerPc' = "returned"
    /\ UNCHANGED <<workerPc, result, raw, winsize>>
    /\ UNCHANGED parserVars
    /\ UNCHANGED notProbeVars

\* rx.recv_timeout without a deadline: it waits for the worker for ever
RecvNeverExpires ==
    /\ callerPc = "waiting"
    /\ chan = <<>>
    /\ UNCHANGED vars

\* rx.recv_timeout(timeout) returns Err(Timeout): the deadline has passed
\* with nothing in the channel
RecvTimeoutExpires ==
    /\ callerPc = "waiting"
    /\ chan = <<>>
    /\ received' = ErrResult("timeout")
    /\ callerPc' = "returned"
    /\ UNCHANGED <<workerPc, result, raw, chan, winsize>>
    /\ UNCHANGED parserVars
    /\ UNCHANGED notProbeVars

ProbeNext ==
    \/ Spawn
    \/ EnableRawMode
    \/ WriteQuery
    \/ TerminalSends
    \/ ReadChunk
    \/ ReadFails
    \/ DisableRawMode
    \/ SendResult
    \/ RecvResult
    \/ RecvTimeoutExpires

ProbeSpec == ProbeInit /\ [][ProbeNext]_vars

\* The caller's thread runs: thread::spawn returns and recv_timeout returns
\* when there is a result or when the deadline has passed.  Nothing is
\* assumed about the worker or the terminal.
ProbeFairSpec ==
    ProbeSpec /\ WF_vars(Spawn \/ RecvResult \/ RecvTimeoutExpires)

(***************************************************************************)
(* The cell footprint of an image, ImageSource::round_pixel_size_to_cells. *)
(* The arithmetic is that of the code: u32 and u16 converted to f32, an    *)
(* f32 division, ceil, and a saturating cast to u16.  An f32 holds the     *)
(* integers up to 2^24 exactly and rounds the larger ones, and every       *)
(* quotient, to 24 significant bits, ties to even.                         *)
(***************************************************************************)
\* 2^24: up to here every integer is an f32.
F32Precise == 16777216

RECURSIVE Pow2(_)
Pow2(k) == IF k = 0 THEN 1 ELSE 2 * Pow2(k - 1)

RECURSIVE Log2Floor(_)
\* The e with 2^e <= n < 2^(e+1), for n >= 1.
Log2Floor(n) == IF n < 2 THEN 0 ELSE 1 + Log2Floor(n \div 2)

\* n as f32, for an integer n >= 0
AsF32(n) ==
    IF n <= F32Precise THEN n
    ELSE LET ulp == Pow2(Log2Floor(n) - 23)
             q == n \div ulp
             r == n % ulp
         IN  IF 2 * r < ulp THEN q * ulp
             ELSE IF 2 * r > ulp THEN (q + 1) * ulp
             ELSE IF q % 2 = 0 THEN q * ulp
             ELSE (q + 1) * ulp

\* (a / b).ceil() as u16 for f32 a and b holding integers, b >= 1.  The
\* quotient n + r/b rounds down to n when r/b is at most half an ulp of n.
CeilAsU16(a, b) ==
    LET n == a \div b
        r == a % b
    IN  IF n > U16Max THEN U16Max
        ELSE IF r = 0 THEN n
        ELSE IF n = 0 THEN 1
        ELSE IF r <= b \div Pow2(24 - Log2Floor(n)) THEN n
        ELSE Min(n + 1, U16Max)

\* ImageSource::round_pixel_size_to_cells(img_width, img_height, font_size)
RoundPixelSizeToCells(img_width, img_height, font_size) ==
    LET width == CeilAsU16(AsF32(img_width), AsF32(font_size[1]))
        height == CeilAsU16(AsF32(img_height), AsF32(font_size[2]))
    IN  Rect(0, 0, width, height)

\* Pixel sizes: small ones, and those around the largest u16 and around 2^24.
PixelSizes ==
    (1..MaxPx) \cup {U16Max, U16Max + 1, F32Precise, F32Precise + 1,
                      F32Precise + 2}

\* Cell sizes: small ones and two large powers of two.
CellSizes == (1..MaxCell) \cup {Pow2(9), Pow2(12)}

FootprintInit ==
    /\ ParserIdle
    /\ ProtoIdle
    /\ PickerIdle
    /\ QueryIdle
    /\ ProbeIdle
    /\ SourceIdle
    /\ ReplyIdle
    /\ pixels \in [img_width : PixelSizes, img_height : PixelSizes,
                    font_size : CellSizes \X CellSizes]
    /\ footprint = NoRect

\* let area = ImageSource::round_pixel_size_to_cells(image.width(),
\* image.height(), font_size);
DoRoundPixelSizeToCells ==
    /\ footprint = NoRect
    /\ footprint' = RoundPixelSizeToCells(pixels.img_width, pixels.img_height,
                                          pixels.font_size)
    /\ UNCHANGED pixels
    /\ UNCHANGED notFootVars

FootprintNext == DoRoundPixelSizeToCells

FootprintSpec == FootprintInit /\ [][FootprintNext]_vars

(***************************************************************************)
(* ImageSource::new.  A bitmap is its width, its height and its pixels,    *)
(* row by row; a pixel is its four bytes, red, green, blue and alpha.      *)
(* DefaultHasher::new() has fixed keys, so the fingerprint is a function   *)
(* of what is written to the hasher: the length of the byte slice and the  *)
(* bytes, in order.  It is modelled as a polynomial over them.             *)
(***************************************************************************)
MaxImgPx == 2

\* The modulus and the multiplier of the model of the hasher.
HashMod == 65521
HashMul == 257

Transparent == <<0, 0, 0, 0>>
Black == <<0, 0, 0, 255>>
Red == <<255, 0, 0, 255>>
White == <<255, 255, 255, 255>>

PixelValues == {Transparent, Black, Red}

\* Rgba<u8>, the background_color argument.
BackgroundColors == {Transparent, Black, White}

Bitmap(w, h, px) == [width |-> w, height |-> h, pixels |-> px]

\* The bitmaps of at most MaxImgPx pixels, one row or one column.
Bitmaps ==
    UNION { { Bitmap(n, 1, px) : px \in [1..n -> PixelValues] }
            \cup { Bitmap(1, n, px) : px \in [1..n -> PixelValues] }
            : n \in 1..MaxImgPx }

RECURSIVE Flatten(_)
\* image.as_bytes(): the bytes of the pixels, one pixel after the other.
Flatten(px) == IF px = <<>> THEN <<>> ELSE Head(px) \o Flatten(Tail(px))

AsBytes(image) == Flatten(image.pixels)

RECURSIVE HashWrite(_, _)
\* Hasher::write: the bytes enter the state one by one.
HashWrite(state, bytes) ==
    IF bytes = <<>>
    THEN state
    ELSE HashWrite((state * HashMul + Head(bytes) + 1) % HashMod, Tail(bytes))

\* <[u8] as Hash>::hash writes the length and then the bytes; finish().
HashBytes(bytes) == HashWrite(Len(bytes) % HashMod, bytes)

\* imageops::overlay(&mut bg, &image, 0, 0) on a bitmap filled with color:
\* an opaque pixel covers the background, a transparent one shows it.
Overlay(color, image) ==
    Bitmap(image.width, image.height,
           [i \in DOMAIN image.pixels |->
              IF image.pixels[i][4] = 0 THEN color ELSE image.pixels[i]])

\* The same, but the fingerprint is taken of the stored bitmap.
ImageSourceNewHashesStored(image, font_size, background_color) ==
    LET stored == IF background_color[4] # 0
                  THEN Overlay(background_color, image)
                  ELSE image
    IN  [image |-> stored,
         area |-> RoundPixelSizeToCells(image.width, image.height, font_size),
         hash |-> HashBytes(AsBytes(stored)),
         background_color |-> background_color]

\* ImageSource::new
ImageSourceNew(image, font_size, background_color) ==
    LET area == RoundPixelSizeToCells(image.width, image.height, font_size)
        hash_ == HashBytes(AsBytes(image))
        stored == IF background_color[4] # 0
                  THEN Overlay(background_color, image)
                  ELSE image
    IN  [image |-> stored, area |-> area, hash |-> hash_,
         background_color |-> background_color]

SourceInit ==
    /\ ParserIdle
    /\ ProtoIdle
    /\ PickerIdle
    /\ QueryIdle
    /\ ProbeIdle
    /\ FootIdle
    /\ ReplyIdle
    /\ images = <<>>

\* Two ImageSources are built, from any bitmaps with any arguments.
DoImageSourceNew ==
    /\ Len(images) < 2
    /\ \E image \in Bitmaps, font_size \in FontSizes,
          background_color \in BackgroundColors :
         images' = Append(images,
                          [input |-> image, font_size |-> font_size,
                           background_color |-> background_color,
                           made |-> ImageSourceNew(image, font_size,
                                                   background_color)])
    /\ UNCHANGED notSourceVars

SourceNext == DoImageSourceNew

SourceSpec == SourceInit /\ [][SourceNext]_vars

(***************************************************************************)
(* One reply at a time: a reply of the three kinds the parser tells by     *)
(* their final character, with any fields, pushed into a fresh Parser one  *)
(* character after the other.                                              *)
(***************************************************************************)
MaxFields == 3

\* The parameters of a device-attributes reply.
SixelFields == { <<"4">>, <<"1">>, <<"1", "4">>, <<"4", "0">>, <<"6", "4">> }

\* The fields of a cell-size reply after ESC[6; : numbers with and without
\* a sign, zero, the largest u16 and the number after it, the empty field,
\* and text.
CellSizeFields ==
    { <<"7">>, <<"1", "4">>, <<"0">>, <<"+", "7">>,
      <<"6", "5", "5", "3", "5">>, <<"6", "5", "5", "3", "6">>, <<>>, <<"x">> }

\* The parameters of a reply that ends in n.
StatusFields == { <<"0">>, <<"7">>, <<"0", "7">>, <<"6">>, <<>> }

RECURSIVE Join(_)
\* The fields fs with a semicolon between them.
Join(fs) ==
    IF fs = <<>> THEN <<>>
    ELSE IF Len(fs) = 1 THEN fs[1]
    ELSE fs[1] \o <<";">> \o Join(Tail(fs))

\* The sequences of one to MaxFields fields out of F.
FieldLists(F) == UNION { [1..n -> F] : n \in 1..MaxFields }

\* ESC [ ? p1 ; .. ; pk c
SixelReplies ==
    { <<ESC, "[", "?">> \o Join(fs) \o <<"c">> : fs \in FieldLists(SixelFields) }

\* ESC [ 6 ; f1 ; .. ; fk t
CellSizeReplies ==
    { <<ESC, "[", "6", ";">> \o Join(fs) \o <<"t">> :
        fs \in FieldLists(CellSizeFields) }

\* ESC [ p1 ; .. ; pk n
StatusReplies ==
    { <<ESC, "[">> \o Join(fs) \o <<"n">> : fs \in FieldLists(StatusFields) }

Replies == SixelReplies \cup CellSizeReplies \cup StatusReplies

ReplyInit ==
    /\ ProtoIdle
    /\ PickerIdle
    /\ QueryIdle
    /\ ProbeIdle
    /\ FootIdle
    /\ SourceIdle
    /\ parser = NewParser
    /\ caps = <<>>
    /\ fed = <<>>
    /\ reply \in Replies
    /\ input = reply

ReplyNext == PushChar

ReplySpec == ReplyInit /\ [][ReplyNext]_vars

(***************************************************************************)
(* Claims about the parser, checked under ParserSpec.                      *)
(***************************************************************************)
\* The characters pushed so far.
Consumed ==
    LET all == Stream(fed) IN SubSeq(all, 1, Len(all) - Len(input))

\* The facts a fresh parser returns for segment s alone.
FactsOf(s) == Run(NewParser, Segments[s], <<>>)

\* A complete recognizable reply: alone, it makes a fresh parser return one fact.
IsReply(s) == Len(FactsOf(s)) = 1

\* Not a complete recognizable reply: alone, it makes a fresh parser return nothing.
IsGarbage(s) == FactsOf(s) = <<>>

\* C1: pushing ESC_Gi=31;OK ESC\ ESC[?64;4c ESC[6;7;14t ESC[0n into a fresh
\* parser, one character at a time, returns exactly Kitty(true), Sixel(true),
\* CellSize(Some((14,7))), Status, in this order.
C1_ParseAll ==
    (fed = <<1, 2, 4, 5>> /\ input = <<>>)
        => caps = <<KittyFact(TRUE), SixelFact(TRUE),
                    CellSizeFact(<<14, 7>>), StatusFact>>

C1_Witness ==
    /\ fed = <<1, 2, 4, 5>>
    /\ input = <<>>
    /\ Len(caps) = 4
    /\ parser.sequence = "Status"

\* C2 (as claimed): for two complete replies with garbage between them (one
\* or more segments, none a complete reply), the facts returned are the fact
\* of the first reply and then the fact of the second, whatever the garbage.
C2_GarbageBetweenReplies ==
    (/\ input = <<>>
     /\ Len(fed) >= 3
     /\ IsReply(fed[1])
     /\ IsReply(fed[Len(fed)])
     /\ \A i \in 2..(Len(fed) - 1) : IsGarbage(fed[i]))
        => caps = FactsOf(fed[1]) \o FactsOf(fed[Len(fed)])

RecognizedPrefixes ==
    { <<"[", "?">>, <<"_", "G", "i", "=", "3", "1", ";">>,
      <<"[", "6", ";">>, <<"[", "0">> }

\* s is made of escape-introduced segments, none beginning with a recognized
\* reply prefix.
NoRecognizedPrefix(s) ==
    /\ s # <<>>
    /\ s[1] = ESC
    /\ \A i \in 1..Len(s) :
         s[i] = ESC => \A pre \in RecognizedPrefixes : ~StartsWithAt(s, i + 1, pre)

\* C3: as long as the pushed input is made only of escape-introduced segments
\* none of which begins with "[?", "_Gi=31;", "[6;" or "[0", push has returned
\* no fact.
C3_OnlyGarbageNoFact == NoRecognizedPrefix(Consumed) => caps = <<>>

\* The "only garbage" case of tests::test_parse_all, and a segment holding a
\* whole device-attributes reply after a character that is not part of it.
C3_Witness ==
    /\ input = <<>>
    /\ fed = <<6, 7, 8, 10>>
    /\ NoRecognizedPrefix(Consumed)
    /\ caps = <<>>

(***************************************************************************)
(* Claims about the stateful protocol, checked under StatefulSpec.         *)
(***************************************************************************)
\* C4: right after a resize_encode(policy, bg, area) that encoded,
\* needs_resize(policy, area) with the same policy and area returns None.
C4_NoResizeAfterEncode ==
    (lastOp.op = "resize_encode" /\ lastOp.outcome = "encoded")
        => NeedsResize(source, current, lastOp.policy, lastOp.area) = NoRect

\* A resize_encode has encoded for an area the image does not fill, so the
\* cached rectangle is not the area.
C4_Witness ==
    /\ lastOp.op = "resize_encode"
    /\ lastOp.outcome = "encoded"
    /\ current.area.width < lastOp.area.width
    /\ hash = source.hash

Drawn == IF lastOp.op = "render" THEN current ELSE fixed

\* C7 (as claimed): when render proceeds with render rectangle R, the payload
\* is the symbol of the cell at R's top-left corner, every other cell R covers
\* is marked skip, and no cell R does not cover is modified, also when R is
\* empty.
C7_RenderExactCells ==
    (lastOp.op \in {"render", "fixed_render"} /\ lastOp.ret # NoRect)
        => LET R == lastOp.ret
           IN  /\ \A c \in Cells \ Covered(R) : buf[c] = bufBefore[c]
               /\ \A c \in Covered(R) :
                    IF c = <<R.x, R.y>>
                    THEN buf[c].symbol = Drawn.data
                    ELSE /\ buf[c].skip
                         /\ buf[c].symbol = bufBefore[c].symbol

\* C8: Iterm2State::render never refuses: it draws into (area.x, area.y,
\* min(cached.width, area.width), min(cached.height, area.height)); the
\* payload is at that rectangle's corner and its other cells are skipped.
C8_StatefulRenderClips ==
    lastOp.op = "render"
        => LET R == Rect(lastOp.area.x, lastOp.area.y,
                         Min(current.area.width, lastOp.area.width),
                         Min(current.area.height, lastOp.area.height))
           IN  /\ lastOp.ret = R
               /\ \A c \in Covered(R) :
                    IF c = <<R.x, R.y>>
                    THEN buf[c].symbol = current.data
                    ELSE buf[c].skip

\* A cached rectangle wider than the area was rendered over text.
C8_Witness ==
    /\ lastOp.op = "render"
    /\ current.area.width > lastOp.area.width
    /\ lastOp.area.width > 0
    /\ lastOp.area.height > 0
    /\ bufBefore = TextBuffer
    /\ buf[<<lastOp.area.x, lastOp.area.y>>].symbol = current.data

\* C9: a resize_encode whose encode fails leaves the cached payload, the
\* cached rectangle and the recorded fingerprint as they were.
C9_EncodeFailureKeepsState ==
    [][(lastOp'.op = "resize_encode" /\ lastOp'.outcome = "encode_failed")
          => (current' = current /\ hash' = hash)]_vars

\* An encode failed when something had been encoded before.
C9_Witness ==
    /\ lastOp.op = "resize_encode"
    /\ lastOp.outcome = "encode_failed"
    /\ current.data # <<>>
    /\ hash = source.hash

\* C10: resize_encode with an area of zero width or zero height changes
\* neither the cached payload, nor the cached rectangle, nor the recorded
\* fingerprint.
C10_ZeroAreaNoOp ==
    [][(/\ lastOp'.op = "resize_encode"
        /\ (lastOp'.area.width = 0 \/ lastOp'.area.height = 0))
          => (current' = current /\ hash' = hash)]_vars

\* resize_encode was called with a zero-width area while the recorded
\* fingerprint was not the source's, which forces the resize otherwise.
C10_Witness ==
    /\ lastOp.op = "resize_encode"
    /\ lastOp.area.width = 0
    /\ lastOp.area.height > 0
    /\ lastOp.outcome = "zero_area"
    /\ hash # source.hash

(***************************************************************************)
(* Claims about the fixed protocol, checked under FixedSpec.               *)
(***************************************************************************)
\* C6: FixedIterm2::render into an area narrower or lower than the encoded
\* rectangle leaves every cell of the Buffer as it was.
C6_FixedRenderRefuses ==
    (/\ lastOp.op = "fixed_render"
     /\ (fixed.area.width > lastOp.area.width
           \/ fixed.area.height > lastOp.area.height))
        => buf = bufBefore

\* An encoded rectangle wider, but not taller, than the area was rendered.
C6_Witness ==
    /\ lastOp.op = "fixed_render"
    /\ fixed.area.width > lastOp.area.width
    /\ fixed.area.height <= lastOp.area.height
    /\ lastOp.area.width > 0
    /\ bufBefore = TextBuffer
    /\ buf = bufBefore

(***************************************************************************)
(* Claims about the Picker, checked under PickerSpec.                      *)
(***************************************************************************)
\* C11: the image identifier handed to a Kitty encoder is never 0, whatever
\* the counter started from and however many protocols were built; and when
\* the counter was at the largest 32-bit value the identifier handed out is 1.
C11_KittyIdNeverZero ==
    made.kind = "Kitty" =>
        /\ made.id # U32(0, 0)
        /\ made.id = picker.kitty_counter
        /\ made.was = U32Max => made.id = U32(0, 1)

\* A Kitty protocol has been built while the counter was at its largest value.
C11_Witness ==
    /\ made.kind = "Kitty"
    /\ made.was = U32Max
    /\ made.id = U32(0, 1)

\* d is one step after c: c + 1, or 1 after the largest value.
OneStep(c, d) ==
    \/ c.lo < U16Max /\ d.hi = c.hi /\ d.lo = c.lo + 1
    \/ c.lo = U16Max /\ c.hi < U16Max /\ d.hi = c.hi + 1 /\ d.lo = 0
    \/ c = U32Max /\ d = U32(0, 1)

\* C12: a call of new_protocol or new_resize_protocol advances the counter by
\* exactly one step when the protocol type is Kitty and leaves it unchanged
\* for the other three kinds; it changes no other field of the Picker.
C12_CounterFrame ==
    [][calls' = calls + 1 =>
         /\ IF picker.protocol_type = "Kitty"
            THEN OneStep(picker.kitty_counter, picker'.kitty_counter)
            ELSE picker'.kitty_counter = picker.kitty_counter
         /\ picker'.protocol_type = picker.protocol_type
         /\ picker'.font_size = picker.font_size
         /\ picker'.background_color = picker.background_color
         /\ picker'.is_tmux = picker.is_tmux]_vars

\* new_protocol failed in the Kitty encoder and the counter has advanced all
\* the same, after an earlier call for another kind that left it alone.
C12_Witness ==
    /\ calls = 2
    /\ made.op = "new_protocol"
    /\ made.kind = "Kitty"
    /\ ~made.ok
    /\ made.was \in CounterStarts
    /\ picker.kitty_counter # made.was
    /\ picker.background_color = "black"

\* C13: applying next four times returns to the starting kind, and the four
\* kinds held within one cycle are pairwise distinct, from every start.
C13_NextIsFourCycle ==
    /\ Len(cycle) >= 5 => cycle[5] = cycle[1]
    /\ \A i, j \in 1..Len(cycle) : (i < j /\ j <= 4) => cycle[i] # cycle[j]
    /\ (Len(cycle) >= 2 /\ cycle[1] = "Halfblocks") => cycle[2] = "Sixel"
    /\ (Len(cycle) >= 3 /\ cycle[1] = "Halfblocks") => cycle[3] = "Kitty"
    /\ (Len(cycle) >= 4 /\ cycle[1] = "Halfblocks") => cycle[4] = "Iterm2"

\* proto has been advanced four times from Kitty.
C13_Witness ==
    /\ Len(cycle) = 5
    /\ cycle[1] = "Kitty"

(***************************************************************************)
(* Claims about from_query_stdio, checked under QuerySpec.                 *)
(***************************************************************************)
\* What the read loop makes of the terminal's answer.
Parsed == ReadLoop(NewParser, Stream(answer), <<>>)

\* from_query_stdio has returned after a probe in which nothing went wrong
\* and the terminal sent the status reply.
ProbeCompleted ==
    /\ built # NoBuilt
    /\ built.fault = "none"
    /\ Parsed.done

TmuxGuess == DetectTmuxAndOuterProtocolFromEnv(env).proto

Iterm2Hint == Iterm2FromEnv(env)

\* The kind the capability facts give: Kitty(true) before Sixel(true).
FactsKind ==
    IF \E i \in 1..Len(Parsed.capabilities) :
           Parsed.capabilities[i] = KittyFact(TRUE)
    THEN "Kitty"
    ELSE IF \E i \in 1..Len(Parsed.capabilities) :
                Parsed.capabilities[i] = SixelFact(TRUE)
    THEN "Sixel"
    ELSE "none"

ParsedCellSize ==
    LET c == Parsed.capabilities
        valid == {i \in 1..Len(c) : c[i].kind = "CellSize" /\ c[i].val # <<>>}
    IN  IF valid = {} THEN <<>>
        ELSE c[CHOOSE i \in valid : \A j \in valid : j <= i].val

\* C15: when the terminal answers with the status reply and no capability
\* fact is parsed before it, the constructor does not fail (the window
\* geometry giving the font size); without a hint in the environment the
\* Picker built is for Halfblocks.
C15_StatusOnlyFallsBack ==
    (/\ ProbeCompleted
     /\ Parsed.capabilities = <<>>
     /\ FontSizeFallback(winsize) # <<>>)
    => /\ built.ok
       /\ (TmuxGuess = "none" /\ Iterm2Hint = "none")
              => built.picker.protocol_type = "Halfblocks"

\* C16: after a completed probe the font size is the valid parsed cell size
\* if there is one, else the window-geometry fallback if there is one, and
\* the constructor fails exactly when there is neither; in particular it
\* does not fail when a font size is there and no protocol fact is.
C16_FontSizeResolution ==
    ProbeCompleted =>
        IF ParsedCellSize # <<>>
        THEN built.ok /\ built.picker.font_size = ParsedCellSize
        ELSE IF FontSizeFallback(winsize) # <<>>
        THEN built.ok /\ built.picker.font_size = FontSizeFallback(winsize)
        ELSE ~built.ok

(***************************************************************************)
(* Claims about the probe, checked under ProbeFairSpec and ProbeSpec.      *)
(***************************************************************************)
\* C17: query_with_timeout always returns to its caller; when it returns
\* while the worker is still in its read loop, or has not got that far, what
\* it returns is the timeout error.
C17_ProbeReturns ==
    /\ <>(callerPc = "returned")
    /\ []((callerPc = "returned" /\ workerPc \in {"spawned", "write", "read"})
            => received = ErrResult("timeout"))

\* The terminal has sent garbage and no terminator, the worker is blocked in
\* read with nothing left to read, and the caller has returned the timeout
\* error.
C17_Witness ==
    /\ callerPc = "returned"
    /\ received = ErrResult("timeout")
    /\ workerPc = "read"
    /\ fed = <<6>>
    /\ input = <<>>
    /\ raw

\* C18: the caller gets one outcome, when recv_timeout returns: the result
\* in the channel if there is one, else the timeout error.  After it has
\* returned nothing changes the outcome, the worker's send puts nothing in
\* the channel and takes the worker to its end, and no step of the probe
\* touches a Picker.
C18_OneOutcome ==
    [][/\ (callerPc # "returned" /\ callerPc' = "returned")
           => /\ callerPc = "waiting"
              /\ received' = IF chan # <<>> THEN chan[1]
                              ELSE ErrResult("timeout")
       /\ callerPc # "returned" => (received = NoResult /\ chan \in {<<>>, <<result>>})
       /\ callerPc = "returned"
           => /\ callerPc' = "returned"
              /\ received' = received
              /\ chan' = <<>>
       /\ (callerPc = "returned" /\ workerPc = "send" /\ workerPc' # workerPc)
           => workerPc' = "done"
       /\ picker' = picker
       /\ built' = built]_vars

\* The deadline fired first; the worker then finished with a good result,
\* sent it on the abandoned channel and ended; the caller keeps the timeout.
C18_Witness ==
    /\ callerPc = "returned"
    /\ received = ErrResult("timeout")
    /\ workerPc = "done"
    /\ result.ok
    /\ chan = <<>>

\* C19: once the worker has a result to deliver, on any path after raw mode
\* was installed, the input stream is no longer in raw mode; no result is in
\* the channel while it is.
C19_RestoredBeforeSend ==
    /\ workerPc \in {"send", "done"} => ~raw
    /\ chan # <<>> => ~raw

\* C19, amended: the worker tries to restore the mode before it delivers; the
\* input stream is still in raw mode at delivery only when that restore
\* failed, and then the restore's error is what is delivered.
C19_RestoreTriedBeforeSend ==
    /\ (workerPc \in {"send", "done"} /\ raw) => result = ErrResult("restore")
    /\ (chan # <<>> /\ raw) => chan[1] = ErrResult("restore")
    /\ workerPc \in {"idle", "spawned"} => ~raw

\* The read failed in raw mode and the mode was restored before the read
\* error went into the channel.
C19_Witness ==
    /\ chan = <<ErrResult("read")>>
    /\ workerPc = "done"
    /\ ~raw

(***************************************************************************)
(* Claims about the footprint, checked under FootprintSpec.                *)
(***************************************************************************)
\* C20: on both axes the footprint times the cell size is at least the pixel
\* size, one cell less would not be, and so the footprint is not zero.
C20_FootprintIsCeiling ==
    footprint # NoRect =>
        /\ footprint.width * pixels.font_size[1] >= pixels.img_width
        /\ (footprint.width - 1) * pixels.font_size[1] < pixels.img_width
        /\ footprint.height * pixels.font_size[2] >= pixels.img_height
        /\ (footprint.height - 1) * pixels.font_size[2] < pixels.img_height
        /\ footprint.width > 0
        /\ footprint.height > 0

(***************************************************************************)
(* Claims about ImageSource::new, checked under SourceSpec.                *)
(***************************************************************************)
\* C21: two ImageSources built from bit-identical pixel bytes have equal
\* fingerprints, whatever their font sizes and background colors are.
C21_FingerprintOfBytesOnly ==
    \A i \in DOMAIN images, j \in DOMAIN images :
        AsBytes(images[i].input) = AsBytes(images[j].input)
            => images[i].made.hash = images[j].made.hash

\* The same bytes, with a transparent pixel, built once without a background
\* and once over a background with another font size: the stored bitmaps
\* differ.
C21_Witness ==
    /\ Len(images) = 2
    /\ AsBytes(images[1].input) = AsBytes(images[2].input)
    /\ images[1].font_size # images[2].font_size
    /\ images[1].background_color = Transparent
    /\ images[2].background_color = White
    /\ images[1].made.image # images[2].made.image

C23_FreshUntilFirstEncode ==
    lastEncArea = NoRect
        => /\ current.data = <<>>
           /\ current.area = Rect(0, 0, 0, 0)
           /\ hash = 0

\* resize_encode was called and its encode failed, render and needs_resize
\* may have been called, and nothing was ever encoded; the source's
\* fingerprint is not that of no source.
C23_Witness ==
    /\ lastEncArea = NoRect
    /\ lastOp.op = "resize_encode"
    /\ lastOp.outcome = "encode_failed"
    /\ source.hash # 0

(***************************************************************************)
(* Claims about single pushes, checked under ParserSpec.                   *)
(***************************************************************************)
\* C24: in every state of the parser, pushing the escape character discards
\* the buffered text, puts the parser in Idle and emits no fact.
C24_EscapeRestartsEverywhere ==
    [][(input # <<>> /\ Head(input) = ESC)
          => (parser' = NewParser /\ caps' = caps)]_vars

(***************************************************************************)
(* Claims about the read loop of the probe, checked under ProbeSpec.       *)
(***************************************************************************)
\* The characters the worker has read from the input stream.
ProbeConsumed ==
    SubSeq(Stream(fed), 1, Len(Stream(fed)) - Len(input))

\* C25: once the characters read hold a status reply, the read loop is left,
\* the parser is as the 'n' of that reply left it, the capabilities are the
\* facts before the first Status, and the result is made of these alone:
\* what follows the first status reply, in the same chunk or later, has no
\* part in it.
C25_StatusStopsTheLoop ==
    LET pass == ReadLoop(NewParser, ProbeConsumed, <<>>)
    IN  pass.done
            => /\ workerPc \in {"restore", "send", "done"}
               /\ parser = [data |-> <<"[", "0">>, sequence |-> "Status"]
               /\ parser = pass.parser
               /\ caps = pass.capabilities
               /\ ~Has(caps, StatusFact)
               /\ result \in {CapabilitiesResult(pass.capabilities, winsize),
                              ErrResult("restore")}

\* A cell size, the status reply and a Kitty acknowledgement arrived in one
\* chunk: the result has the cell size and no protocol.
C25_Witness ==
    /\ fed = <<4, 5, 1>>
    /\ input = <<>>
    /\ workerPc = "done"
    /\ result = OkResult("none", <<14, 7>>)

\* C26: when the characters the worker has read hold a status reply, whatever
\* comes before it, the read loop has finished.
C26_StatusEndsTheRead ==
    ((\E i \in DOMAIN fed : fed[i] = 5) /\ input = <<>>)
        => workerPc # "read"

(***************************************************************************)
(* Claims about single replies, checked under ReplySpec.                   *)
(***************************************************************************)
\* The digits of a field, after the sign str::parse allows.
Unsigned(f) == IF f # <<>> /\ f[1] = "+" THEN Tail(f) ELSE f

\* The field is a number.
Numeric(f) == f # <<>> /\ \A i \in 1..Len(f) : f[i] \in Digits

\* The field parses as a positive integer (of 16 bits, as the cell size is).
ParsesPositive(f) ==
    /\ Numeric(Unsigned(f))
    /\ DecimalValue(Unsigned(f)) >= 1
    /\ DecimalValue(Unsigned(f)) <= U16Max

\* C27: in the CellSize state the push of 't' returns exactly one fact,
\* CellSize(Some((w, h))) if and only if the buffer split on ';' has exactly
\* three fields and the second, h, and the third, w, parse as positive
\* integers, and CellSize(None) otherwise.
C27_CellSizeOnT ==
    [][(parser.sequence = "CellSize" /\ input # <<>> /\ Head(input) = "t")
          => LET fields == SplitOn(parser.data, ";")
                 some == /\ Len(fields) = 3
                         /\ ParsesPositive(fields[2])
                         /\ ParsesPositive(fields[3])
             IN  caps' = Append(caps,
                                CellSizeFact(
                                    IF some
                                    THEN <<DecimalValue(Unsigned(fields[3])),
                                           DecimalValue(Unsigned(fields[2]))>>
                                    ELSE <<>>))]_vars

\* ESC[6;+7;65535t has been pushed: height 7, width 65535.
C27_Witness ==
    /\ reply = <<ESC, "[", "6", ";", "+", "7", ";", "6", "5", "5", "3", "5", "t">>
    /\ input = <<>>
    /\ caps = <<CellSizeFact(<<65535, 7>>)>>

\* The parameters of the reply ESC [ ? p1 ; .. ; pk c.
SixelParams == SplitOn(SubSeq(reply, 4, Len(reply) - 1), ";")

\* C28: for a device-attributes reply with numeric parameters the parser
\* returns Sixel(true) if and only if some parameter is 4, a whole field
\* between semicolons, and Sixel(false) otherwise.
C28_SixelIffParameterFour ==
    (/\ input = <<>>
     /\ Len(reply) >= 4
     /\ reply[3] = "?"
     /\ reply[Len(reply)] = "c"
     /\ \A i \in DOMAIN SixelParams : Numeric(SixelParams[i]))
        => caps = <<SixelFact(\E i \in DOMAIN SixelParams :
                                  SixelParams[i] = <<"4">>)>>

\* ESC[?14;40;64c has been pushed: no parameter is 4.
C28_Witness ==
    /\ reply = <<ESC, "[", "?", "1", "4", ";", "4", "0", ";", "6", "4", "c">>
    /\ input = <<>>
    /\ caps = <<SixelFact(FALSE)>>

\* A reply ESC [ parameters n has been pushed.
StatusReplyPushed ==
    /\ input = <<>>
    /\ reply # <<>>
    /\ reply[Len(reply)] = "n"

\* C29 (as claimed): every reply ESC [ parameters n makes the parser return
\* Status, whatever the parameters are.
C29_AnyParametersStatus == StatusReplyPushed => caps = <<StatusFact>>

\* C29 (amended): a reply ESC [ parameters n makes the parser return Status
\* if and only if the parameters begin with the character 0; what follows
\* that 0 is ignored.
C29_ZeroParametersStatus ==
    StatusReplyPushed
        => caps = IF reply[3] = "0" THEN <<StatusFact>> ELSE <<>>

\* ESC[0;7n has been pushed.
C29_Witness ==
    /\ reply = <<ESC, "[", "0", ";", "7", "n">>
    /\ input = <<>>
    /\ caps = <<StatusFact>>

(***************************************************************************)
(* Claims about the input stream after the probe, checked under ProbeSpec. *)
(***************************************************************************)
\* C30 (as claimed): once query_with_timeout has returned, with a result or
\* with the timeout error, the worker is not reading and is not going to
\* read the input stream, and the stream is not in raw mode.
C30_StreamFreeAfterReturn ==
    callerPc = "returned"
        => (workerPc \notin {"spawned", "write", "read"} /\ ~raw)

\* C30 (amended): once query_with_timeout has returned what the worker sent,
\* the worker has finished, so it reads no more, and the stream is in raw
\* mode only if the restore failed, which is then the error returned.
C30_StreamFreeAfterResult ==
    (callerPc = "returned" /\ received # ErrResult("timeout"))
        => /\ workerPc = "done"
           /\ raw => received = ErrResult("restore")

\* The probe has returned a protocol and a font size, the worker is done and
\* the stream is out of raw mode, with characters of the terminal left unread.
C30_Witness ==
    /\ callerPc = "returned"
    /\ received.ok
    /\ workerPc = "done"
    /\ ~raw
    /\ input # <<>>

(***************************************************************************)
(* The parser after a fact, checked under ParserSpec.                      *)
(***************************************************************************)
\* C31: whenever push returns a fact, the parser is afterwards in Idle with
\* an empty buffer.
C31_IdleAfterEveryFact ==
    [][caps' # caps => parser' = NewParser]_vars

(***************************************************************************)
(* The render of a fresh stateful protocol, checked under StatefulSpec.    *)
(***************************************************************************)
\* C32: the render of a stateful protocol on which no resize_encode has
\* encoded yet modifies no cell of the Buffer, whatever the area is.
C32_FreshRenderModifiesNothing ==
    (lastOp.op = "render" /\ lastEncArea = NoRect) => buf = bufBefore

(***************************************************************************)
(* The recorded fingerprint, checked under StatefulSpec.                   *)
(***************************************************************************)
\* The cached payload is the encoding of a bitmap of the source, of the size
\* of the cached rectangle.
EncodedFromSource ==
    /\ current.data # <<>>
    /\ current.data[3] = source.hash
    /\ current.data[5] = current.area.width
    /\ current.data[6] = current.area.height

\* The recorded fingerprint is the initial value or the source's.
InitialOrSource == hash \in {0, source.hash}

\* The recorded fingerprint changes only in a step that encodes and replaces
\* the cached payload and rectangle.
ChangesWithPayload ==
    hash' # hash
        => /\ lastOp'.outcome = "encoded"
           /\ current'.data # current.data
           /\ current'.area # current.area
           /\ EncodedFromSource'

\* C33 (as claimed): the recorded fingerprint is the initial value or the
\* source's, it changes only in the step that replaces the cached payload
\* and rectangle, and when it equals the source's fingerprint the cached
\* payload was encoded from the source.
C33_FingerprintMeansEncoded ==
    /\ []InitialOrSource
    /\ [][ChangesWithPayload]_vars
    /\ [](hash = source.hash => EncodedFromSource)

\* C33 (amended): the recorded fingerprint is the initial value or the
\* source's, it changes only in the step that replaces the cached payload
\* and rectangle, and once a resize_encode has encoded, or when the recorded
\* fingerprint is not the initial value, it is the source's fingerprint and
\* the cached payload was encoded from the source.
C33_FingerprintAfterEncode ==
    /\ []InitialOrSource
    /\ [][ChangesWithPayload]_vars
    /\ []((lastEncArea # NoRect \/ hash # 0)
            => (hash = source.hash /\ EncodedFromSource))
    /\ [](lastEncArea = NoRect => current.data = <<>>)

\* A resize_encode has just encoded a source whose fingerprint is not the
\* initial value: the recorded fingerprint is now the source's.
C33_Witness ==
    /\ lastOp.op = "resize_encode"
    /\ lastOp.outcome = "encoded"
    /\ source.hash # 0
    /\ hash = source.hash

=============================================================================
